---- MODULE Spec2Model ----
(***************************************************************************)
(* Model of the GossipApp coordinator (src/src/server.py), the notifier    *)
(* retry wrapper (src/src/telegram_interactions.py), the client and its    *)
(* framing (src/src/client.py) and the asyncio runtime that schedules      *)
(* them.  Spec and FairSpec are the coordinator, one action per            *)
(* uninterrupted run of a handler; StepSpec is the coordinator statement   *)
(* by statement; FrameSpec, ClientSpec and NotifierSpec are the framing    *)
(* layer, the client and send_notification, each on its own variables.     *)
(*                                                                         *)
(* The coordinator runs on one asyncio event loop: a handler runs without  *)
(* interruption from one suspension point to the next.  The suspension     *)
(* points of handle_client are the two readexactly calls, the              *)
(* server.wait_closed() inside initiate_shutdown and the final             *)
(* writer.wait_closed().  send_combined_message has no await that yields   *)
(* (send_notification is a blocking call), and writer.drain() does not     *)
(* yield for a 20-byte acknowledgment on an open transport.  Each action   *)
(* below is one such uninterrupted run.                                    *)
(*                                                                         *)
(* What server.wait_closed() does after server.close() depends on the      *)
(* asyncio runtime the code runs on: up to CPython 3.11 it returns at      *)
(* once, from 3.12 on it waits until no connection is attached to the      *)
(* server.  The source pins no version, so Init chooses either (drains).   *)
(***************************************************************************)
EXTENDS Integers, Sequences, FiniteSets, TLC

\* ---------------------------------------------------------------- bounds
MaxConns == 4

Conns == 1..MaxConns
PeerIds == 1..MaxConns

\* ------------------------------------------------------ program constants
expected_clients == 2
max_attempts == 3
Words == {"Hello", "World"}
ShutdownMessage == "Server shutting down after successful message combination"

NoId == 0

\* Replies of the external channel to the successive attempts of one
\* send_notification call: TRUE is HTTP 200, FALSE is any other status, a
\* timeout or a request error.
Outcomes == [1..max_attempts -> BOOLEAN]

VARIABLES
    credentials,        \* config.TELEGRAM_BOT_TOKEN and config.TELEGRAM_CHAT_ID
    drains,             \* runtime: Server.wait_closed() waits for open connections
    client_messages,    \* Coordinator.client_messages, an insertion-ordered dict
    message_sent,       \* Coordinator.message_sent
    shutdown_requested, \* Coordinator.shutdown_requested
    listening,          \* Coordinator.server still owns its listening socket
    mainpc,             \* position of the server's main() task
    pc,                 \* position of each connection's handle_client task
    cid,                \* client_id (peer identity) of each connection
    acks,               \* acknowledgment frames written, per connection
    recorded,           \* whether each connection's message was stored
    arrivals,           \* live messages in the order they were recorded
    notified,           \* every text passed to send_notification, in order
    deliveries,         \* every run of the delivery path, in order
    shutdownCalls,      \* connections whose handler called initiate_shutdown
    listenerCloses      \* times the listening socket was actually closed

\* The framing layer (client.py send_message / receive_message, server.py
\* handle_client): one writer and one reader on one stream.
VARIABLES
    frames,             \* the messages the writer is asked to send, in order
    framesWritten,      \* frames the writer has completely written
    wpc,                \* writer's position: "idle" or "prefix" (prefix written)
    wire,               \* bytes written and not yet consumed by the reader
    rpc,                \* reader's position: "len" or "body"
    message_length,     \* the length the reader decoded from the last prefix
    received,           \* what the reader returned, frame by frame
    consumed            \* bytes the reader has taken from the stream

frameVars == <<frames, framesWritten, wpc, wire, rpc, message_length,
               received, consumed>>

\* The framing layer before anything is sent
FrameIdle ==
    /\ frames = <<>> /\ framesWritten = 0 /\ wpc = "idle" /\ wire = <<>>
    /\ rpc = "len" /\ message_length = 0 /\ received = <<>> /\ consumed = 0

\* The client (client.py): one ReliableTCPClient, driven either by main()
\* or by a caller that uses its methods in any order.
VARIABLES
    connected,          \* ReliableTCPClient.connected
    writer,             \* ReliableTCPClient.writer / reader: the stream's state
    cpc,                \* position inside the method being executed
    mainAt,             \* what main() calls next; "api" for a free caller
    failuresLeft,       \* dial attempts that will still fail
    dialN,              \* failures the dialer had in store when connect() began
    dialAttempts,       \* open_connection attempts of the current connect()
    dialDelays,         \* reconnect delays slept in the current connect()
    flushed,            \* writes of the current send_message written and drained
    calls               \* every method call that has returned or raised, in order

clientVars == <<connected, writer, cpc, mainAt, failuresLeft, dialN,
                dialAttempts, dialDelays, flushed, calls>>

\* ReliableTCPClient.__init__, before main() or any caller has run
ClientIdle ==
    /\ connected = FALSE /\ writer = "none" /\ cpc = "idle"
    /\ mainAt = "end" /\ failuresLeft = 0 /\ dialN = 0
    /\ dialAttempts = 0 /\ dialDelays = 0 /\ flushed = 0 /\ calls = <<>>

\* The notifier (telegram_interactions.py): one call of send_notification
VARIABLES
    replies,            \* what the channel answers to each successive request
    nAttempt,           \* the loop variable of "for attempt in range(max_attempts)"
    npc,                \* position: "post", "sleep", "exhausted" or "returned"
    posts,              \* requests.post calls made
    sleeps,             \* time.sleep(delay) calls made
    result              \* the value returned: "true" or "false"; "none" before

notifierVars == <<replies, nAttempt, npc, posts, sleeps, result>>

\* No call of send_notification under way
NotifierIdle ==
    /\ replies = <<>> /\ nAttempt = 0 /\ npc = "returned"
    /\ posts = 0 /\ sleeps = 0 /\ result = "none"

\* The event loop, for the statement-level view of handle_client
VARIABLES
    running             \* the connection whose handler is executing; 0 if none

\* The components other than the coordinator
compVars == <<frameVars, clientVars, notifierVars>>

\* Everything the coordinator's own actions leave alone
auxVars == <<compVars, running>>
AuxIdle == FrameIdle /\ ClientIdle /\ NotifierIdle /\ running = 0

vars == <<credentials, drains, client_messages, message_sent,
          shutdown_requested, listening, mainpc, pc, cid, acks,
          recorded, arrivals, notified, deliveries, shutdownCalls,
          listenerCloses, auxVars>>

coordVars == <<client_messages, message_sent, shutdown_requested>>
serverVars == <<listening, mainpc, listenerCloses>>
ghostVars == <<arrivals, notified, deliveries, shutdownCalls>>
confVars == <<credentials, drains>>

\* ---------------------------------------------------------------- helpers
Last(s) == s[Len(s)]

\* " ".join(seq)
RECURSIVE Join(_)
Join(s) ==
    IF s = <<>> THEN ""
    ELSE IF Len(s) = 1 THEN s[1]
    ELSE s[1] \o " " \o Join(Tail(s))

DictHas(d, k) == \E i \in 1..Len(d) : d[i].id = k

\* d[k] = v on a Python dict: a new key goes last, an existing key keeps
\* its position and takes the new value.
DictSet_append(d, k, v) == Append(d, [id |-> k, msg |-> v])

DictSet_prepend(d, k, v) ==
    IF DictHas(d, k)
    THEN [i \in 1..Len(d) |-> IF d[i].id = k THEN [id |-> k, msg |-> v] ELSE d[i]]
    ELSE <<[id |-> k, msg |-> v]>> \o d

DictSet(d, k, v) ==
    IF DictHas(d, k)
    THEN [i \in 1..Len(d) |-> IF d[i].id = k THEN [id |-> k, msg |-> v] ELSE d[i]]
    ELSE Append(d, [id |-> k, msg |-> v])

DictValues(d) == [i \in 1..Len(d) |-> d[i].msg]

\* ------------------------------------------------------- send_notification
\* The retry loop of send_notification from attempt number `attempt`
\* (0-based), having slept `delays` times so far.
RECURSIVE NotifyFrom(_, _, _)
NotifyFrom(attempt, outs, delays) ==
    IF attempt >= max_attempts
    THEN [ok |-> FALSE, attempts |-> attempt, delays |-> delays]
    ELSE IF outs[attempt + 1]
    THEN [ok |-> TRUE, attempts |-> attempt + 1, delays |-> delays]
    ELSE NotifyFrom(attempt + 1, outs,
                    IF attempt < max_attempts - 1 THEN delays + 1 ELSE delays)

send_notification(outs) == NotifyFrom(0, outs, 0)

\* ------------------------------------------------------------ connections
\* Positions of handle_client with its transport attached to the server;
\* the second line lists the positions of the statement-level view.
OpenPcs == {"accepted", "readlen", "readbody", "waitclosed",
            "decode", "store", "check", "deliver", "shutdown", "ack"}
LivePcs == OpenPcs \cup {"waitlost"}
EndPcs == {"rejected", "closed", "failed", "cancelled"}

\* Server._active_count: transports attached to the server and not yet lost
ActiveCount == Cardinality({c \in Conns : pc[c] \in OpenPcs})

\* Identities of open connections, identities with a stored message, and
\* the next identity no connection has used yet.
OpenIds == {cid[c] : c \in {o \in Conns : pc[o] \in LivePcs}}
StoredIds == {client_messages[k].id : k \in 1..Len(client_messages)}
FreshId == Cardinality({cid[c] : c \in Conns} \ {NoId}) + 1

TypeOK ==
    /\ credentials \in BOOLEAN /\ drains \in BOOLEAN
    /\ message_sent \in BOOLEAN /\ shutdown_requested \in BOOLEAN
    /\ listening \in BOOLEAN
    /\ mainpc \in {"serving", "cancelled", "ended"}
    /\ pc \in [Conns -> {"new"} \cup LivePcs \cup EndPcs]
    /\ cid \in [Conns -> PeerIds \cup {NoId}]
    /\ acks \in [Conns -> 0..2]
    /\ recorded \in [Conns -> BOOLEAN]
    /\ Len(client_messages) <= MaxConns
    /\ listenerCloses \in 0..2

\* The coordinator after Coordinator() and start_server
CoordInit ==
    /\ credentials \in BOOLEAN
    /\ drains \in BOOLEAN
    /\ client_messages = <<>>
    /\ message_sent = FALSE
    /\ shutdown_requested = FALSE
    /\ listening = TRUE
    /\ mainpc = "serving"
    /\ pc = [c \in Conns |-> "new"]
    /\ cid = [c \in Conns |-> NoId]
    /\ acks = [c \in Conns |-> 0]
    /\ recorded = [c \in Conns |-> FALSE]
    /\ arrivals = <<>>
    /\ notified = <<>>
    /\ deliveries = <<>>
    /\ shutdownCalls = <<>>
    /\ listenerCloses = 0

Init == CoordInit /\ AuxIdle

\* The coordinator left alone, in the specifications of the other components
CoordIdle == CoordInit /\ ~credentials /\ ~drains /\ running = 0

\* ------------------------------------------------------------ coordinator
\* handle_client: "if self.shutdown_requested: ... return"
RejectsConnection_never(sr) == FALSE

RejectsConnection(sr) == sr

\* handle_client: the barrier test made right after the insert
BarrierReached_strict(cm, ms) == Len(cm) > expected_clients /\ ~ms

BarrierReached_early(cm, ms) == Len(cm) >= expected_clients - 1 /\ ~ms

BarrierReached(cm, ms) == Len(cm) >= expected_clients /\ ~ms

\* send_combined_message on the dict cm and flag ms; outs are the replies
\* the external channel would give.  ran: the delivery path was executed;
\* called: send_notification was invoked with the combined message.
send_combined_message_keeps(cm, ms, outs) ==
    IF Len(cm) < expected_clients \/ ms
    THEN [cm |-> cm, ms |-> ms, ran |-> FALSE, called |-> FALSE,
          payload |-> "", outcome |-> "skipped"]
    ELSE LET combined_message == Join(DictValues(cm)) IN
         IF credentials
         THEN LET success == send_notification(outs).ok IN
              [cm |-> cm, ms |-> IF success THEN TRUE ELSE ms,
               ran |-> TRUE, called |-> TRUE, payload |-> combined_message,
               outcome |-> IF success THEN "ok" ELSE "failed"]
         ELSE [cm |-> cm, ms |-> TRUE, ran |-> TRUE, called |-> FALSE,
               payload |-> combined_message, outcome |-> "nocreds"]

send_combined_message(cm, ms, outs) ==
    IF Len(cm) < expected_clients \/ ms
    THEN [cm |-> cm, ms |-> ms, ran |-> FALSE, called |-> FALSE,
          payload |-> "", outcome |-> "skipped"]
    ELSE LET combined_message == Join(DictValues(cm)) IN
         IF credentials
         THEN LET success == send_notification(outs).ok IN
              [cm |-> <<>>, ms |-> IF success THEN TRUE ELSE ms,
               ran |-> TRUE, called |-> TRUE, payload |-> combined_message,
               outcome |-> IF success THEN "ok" ELSE "failed"]
         ELSE [cm |-> <<>>, ms |-> TRUE, ran |-> TRUE, called |-> FALSE,
               payload |-> combined_message, outcome |-> "nocreds"]

\* asyncio Server.close(): a no-op once the sockets are released; otherwise
\* releases them and cancels the serve_forever future main() awaits.
ServerClose(l, n, m) ==
    IF ~l THEN [listening |-> l, closes |-> n, mainpc |-> m]
    ELSE [listening |-> FALSE, closes |-> n + 1,
          mainpc |-> IF m = "serving" THEN "cancelled" ELSE m]

\* initiate_shutdown: "if self.shutdown_requested: return"
ShutdownAlready_never(sr) == FALSE

ShutdownAlready(sr) == sr

\* initiate_shutdown up to its await of server.wait_closed().  notes: the
\* texts it passed to send_notification; waits: it reached wait_closed().
initiate_shutdown(sr, l, n, m) ==
    IF ShutdownAlready(sr)
    THEN [sr |-> sr, notes |-> <<>>, listening |-> l, closes |-> n,
          mainpc |-> m, waits |-> FALSE]
    ELSE LET sc == ServerClose(l, n, m) IN
         [sr |-> TRUE,
          notes |-> IF credentials THEN <<ShutdownMessage>> ELSE <<>>,
          listening |-> sc.listening, closes |-> sc.closes,
          mainpc |-> sc.mainpc, waits |-> TRUE]

\* Server.wait_closed() suspends its caller: never on runtimes where it
\* returns at once after close(), otherwise while a connection is attached.
WaitClosedBlocks == drains /\ ActiveCount > 0

\* ---------------------------------------------------------------- actions
\* A peer connects: the listener accepts and schedules handle_client.
\* Connections are numbered in the order they are accepted.  An identity
\* (remote address:port) is never shared by two open connections; it is
\* either one whose message is stored (a peer reconnecting from the same
\* port) or one the coordinator holds no trace of.  The coordinator never
\* compares the latter with anything, so it is always given the next
\* unused number, FreshId.
Accept(c, i) ==
    /\ listening /\ mainpc = "serving"
    /\ pc[c] = "new"
    /\ \A o \in Conns : o < c => pc[o] # "new"
    /\ i \notin OpenIds
    /\ i \in StoredIds \/ i = FreshId
    /\ pc' = [pc EXCEPT ![c] = "accepted"]
    /\ cid' = [cid EXCEPT ![c] = i]
    /\ UNCHANGED <<coordVars, serverVars, ghostVars, confVars, auxVars, acks, recorded>>

\* handle_client starts: the shutdown check, then suspends in readexactly(4)
Start(c) ==
    /\ pc[c] = "accepted"
    /\ pc' = [pc EXCEPT ![c] = IF RejectsConnection(shutdown_requested)
                               THEN "rejected" ELSE "readlen"]
    /\ UNCHANGED <<coordVars, serverVars, ghostVars, confVars, auxVars, cid, acks, recorded>>

\* readexactly(4) returns; the handler suspends in readexactly(message_length)
ReadLen(c) ==
    /\ pc[c] = "readlen"
    /\ pc' = [pc EXCEPT ![c] = "readbody"]
    /\ UNCHANGED <<coordVars, serverVars, ghostVars, confVars, auxVars, cid, acks, recorded>>

\* Payloads a peer may send next.  The coordinator never looks inside a
\* payload, so behaviours that differ by renaming the words are the same
\* behaviour: the first payload ever stored is taken to be "Hello".
Payloads == IF \A o \in Conns : ~recorded[o] THEN {"Hello"} ELSE Words

\* readexactly(message_length) returns a decodable payload m: the handler
\* stores it, tests the barrier, delivers and initiates shutdown if it is
\* reached, then writes the acknowledgment and closes the connection, unless
\* it suspends in server.wait_closed().
ReadBody(c) ==
    /\ pc[c] = "readbody"
    /\ \E m \in Payloads, o1 \in Outcomes :
        LET stored == DictSet(client_messages, cid[c], m)
            Other(e) == e.id # cid[c]
            arr == Append(SelectSeq(arrivals, Other),
                          [id |-> cid[c], msg |-> m, conn |-> c])
            fire == BarrierReached(stored, message_sent)
            d == send_combined_message(stored, message_sent, o1)
            s == initiate_shutdown(shutdown_requested, listening,
                                   listenerCloses, mainpc)
            blocks == fire /\ s.waits /\ WaitClosedBlocks
        IN
        /\ recorded' = [recorded EXCEPT ![c] = TRUE]
        /\ IF fire
           THEN /\ client_messages' = d.cm
                /\ message_sent' = d.ms
                /\ shutdown_requested' = s.sr
                /\ listening' = s.listening
                /\ listenerCloses' = s.closes
                /\ mainpc' = s.mainpc
                /\ arrivals' = IF d.ran THEN <<>> ELSE arr
                /\ deliveries' =
                     IF d.ran
                     THEN Append(deliveries,
                                 [payload |-> d.payload, arrived |-> arr,
                                  outcome |-> d.outcome, by |-> c])
                     ELSE deliveries
                /\ notified' = notified
                                 \o (IF d.called THEN <<d.payload>> ELSE <<>>)
                                 \o s.notes
                /\ shutdownCalls' = Append(shutdownCalls, c)
           ELSE /\ client_messages' = stored
                /\ arrivals' = arr
                /\ UNCHANGED <<message_sent, shutdown_requested, serverVars,
                               notified, deliveries, shutdownCalls>>
        /\ IF blocks
           THEN /\ pc' = [pc EXCEPT ![c] = "waitclosed"]
                /\ acks' = acks
           ELSE /\ pc' = [pc EXCEPT ![c] = "closed"]
                /\ acks' = [acks EXCEPT ![c] = @ + 1]
    /\ UNCHANGED <<confVars, auxVars, cid>>

\* readexactly(message_length) returns bytes that data.decode() rejects
DecodeError(c) ==
    /\ pc[c] = "readbody"
    /\ pc' = [pc EXCEPT ![c] = "failed"]
    /\ UNCHANGED <<coordVars, serverVars, ghostVars, confVars, auxVars, cid, acks, recorded>>

\* The peer's end of connection c goes away.  A pending readexactly raises
\* and the handler closes the connection; a handler suspended in
\* server.wait_closed() stays suspended, its transport detached.
PeerFault(c) ==
    /\ pc[c] \in {"readlen", "readbody", "waitclosed"}
    /\ pc' = [pc EXCEPT ![c] = IF pc[c] = "waitclosed" THEN "waitlost" ELSE "failed"]
    /\ UNCHANGED <<coordVars, serverVars, ghostVars, confVars, auxVars, cid, acks, recorded>>

\* server.wait_closed() returns in initiate_shutdown once no connection is
\* attached; the acknowledgment is then written to a lost transport and
\* drain() raises.
Resume(c) ==
    /\ pc[c] = "waitlost"
    /\ ~listening /\ ActiveCount = 0
    /\ pc' = [pc EXCEPT ![c] = "failed"]
    /\ UNCHANGED <<coordVars, serverVars, ghostVars, confVars, auxVars, cid, acks, recorded>>

\* asyncio.run(main()) returning cancels every task still pending
CancelAll == [c \in Conns |-> IF pc[c] \in LivePcs THEN "cancelled" ELSE pc[c]]

\* main() is resumed by the cancellation of serve_forever: serve_forever and
\* "async with server" call close() and wait_closed() again, then main
\* returns and asyncio.run cancels the tasks still pending.  On a runtime
\* whose wait_closed() waits, main stays suspended in it while a connection
\* is attached.
MainEnd ==
    /\ mainpc = "cancelled"
    /\ ~WaitClosedBlocks
    /\ LET sc == ServerClose(listening, listenerCloses, mainpc) IN
        /\ listening' = sc.listening
        /\ listenerCloses' = sc.closes
    /\ mainpc' = "ended"
    /\ pc' = CancelAll
    /\ UNCHANGED <<coordVars, ghostVars, confVars, auxVars, cid, acks, recorded>>

Next ==
    \/ \E c \in Conns, i \in PeerIds : Accept(c, i)
    \/ \E c \in Conns : Start(c)
    \/ \E c \in Conns : ReadLen(c)
    \/ \E c \in Conns : ReadBody(c)
    \/ \E c \in Conns : DecodeError(c)
    \/ \E c \in Conns : PeerFault(c)
    \/ \E c \in Conns : Resume(c)
    \/ MainEnd

Spec == Init /\ [][Next]_vars

\* Fairness: the event loop runs every task that is ready, and a peer that
\* has connected sends its frame.
FairSpec ==
    /\ Init /\ [][Next]_vars
    /\ WF_vars(MainEnd)
    /\ \A c \in Conns :
        /\ WF_vars(Start(c))
        /\ WF_vars(ReadLen(c))
        /\ WF_vars(ReadBody(c))
        /\ WF_vars(Resume(c))

\* ---------------------------------------------------------------- framing
\* client.py send_message / receive_message and the same code in server.py
\* handle_client: a frame is the 4-byte big-endian length of the encoded
\* message followed by the encoded message.
MaxText == 2
MaxFrames == 2

allCoordVars == <<coordVars, serverVars, ghostVars, confVars, pc, cid, acks,
                  recorded, running>>

\* Code points of the messages: "H", "e" with acute accent (two bytes in
\* UTF-8) and the euro sign (three bytes)
Alphabet == {72, 233, 8364}
ShortTexts == UNION {[1..n -> Alphabet] : n \in 0..MaxText}

\* Long messages, at the lengths where the prefix carries into its next
\* byte and at the largest length of the contract
LongLengths == {255, 256, 65535}
LongTexts == {[i \in 1..n |-> 72] : n \in LongLengths}

\* response = "Message received"
AckText == <<77, 101, 115, 115, 97, 103, 101, 32,
             114, 101, 99, 101, 105, 118, 101, 100>>

\* What the writer is asked to send: up to MaxFrames brief messages, or a
\* long message alone or followed by the acknowledgment text.
BriefTexts == ShortTexts \cup {AckText}
FrameSeqs ==
    UNION {[1..n -> BriefTexts] : n \in 1..MaxFrames}
    \cup {<<t>> : t \in LongTexts}
    \cup {<<t, AckText>> : t \in LongTexts}

IsAscii(s) == \A i \in 1..Len(s) : s[i] < 128

\* str.encode() of one code point (UTF-8)
EncodePoint(cp) ==
    IF cp < 128 THEN <<cp>>
    ELSE IF cp < 2048 THEN <<192 + (cp \div 64), 128 + (cp % 64)>>
    ELSE IF cp < 65536
    THEN <<224 + (cp \div 4096), 128 + ((cp \div 64) % 64), 128 + (cp % 64)>>
    ELSE <<240 + (cp \div 262144), 128 + ((cp \div 4096) % 64),
           128 + ((cp \div 64) % 64), 128 + (cp % 64)>>

RECURSIVE EncodeFrom(_, _)
EncodeFrom(t, i) ==
    IF i > Len(t) THEN <<>> ELSE EncodePoint(t[i]) \o EncodeFrom(t, i + 1)

\* message.encode(): ASCII text is its own encoding
UTF8Encode(t) == IF IsAscii(t) THEN t ELSE EncodeFrom(t, 1)

IsCont(b) == b >= 128 /\ b < 192

\* The code point that starts at byte i and the bytes it takes; size 0
\* when the bytes are not valid UTF-8 (bad lead byte, truncated or bad
\* continuation, overlong form, surrogate, beyond U+10FFFF).
DecodePoint(b, i) ==
    LET b0 == b[i]
        need == IF b0 < 128 THEN 1
                ELSE IF b0 >= 194 /\ b0 < 224 THEN 2
                ELSE IF b0 >= 224 /\ b0 < 240 THEN 3
                ELSE IF b0 >= 240 /\ b0 < 245 THEN 4
                ELSE 0
        bad == [size |-> 0, cp |-> 0]
    IN  IF need = 0 \/ i + need - 1 > Len(b) THEN bad
        ELSE IF \E k \in 1..(need - 1) : ~IsCont(b[i + k]) THEN bad
        ELSE LET cp ==
                   IF need = 1 THEN b0
                   ELSE IF need = 2 THEN ((b0 - 192) * 64) + (b[i + 1] - 128)
                   ELSE IF need = 3
                   THEN ((b0 - 224) * 4096) + ((b[i + 1] - 128) * 64)
                        + (b[i + 2] - 128)
                   ELSE ((b0 - 240) * 262144) + ((b[i + 1] - 128) * 4096)
                        + ((b[i + 2] - 128) * 64) + (b[i + 3] - 128)
                 least == IF need = 1 THEN 0 ELSE IF need = 2 THEN 128
                          ELSE IF need = 3 THEN 2048 ELSE 65536
             IN  IF cp < least \/ cp > 1114111
                    \/ (cp >= 55296 /\ cp <= 57343)
                 THEN bad
                 ELSE [size |-> need, cp |-> cp]

RECURSIVE DecodeFrom(_, _)
DecodeFrom(b, i) ==
    IF i > Len(b) THEN [ok |-> TRUE, text |-> <<>>]
    ELSE LET p == DecodePoint(b, i) IN
         IF p.size = 0 THEN [ok |-> FALSE, text |-> <<>>]
         ELSE LET r == DecodeFrom(b, i + p.size) IN
              IF r.ok THEN [ok |-> TRUE, text |-> <<p.cp>> \o r.text]
              ELSE [ok |-> FALSE, text |-> <<>>]

\* data.decode(): ok is FALSE where Python raises UnicodeDecodeError
UTF8Decode(b) ==
    IF IsAscii(b) THEN [ok |-> TRUE, text |-> b] ELSE DecodeFrom(b, 1)

\* message_length = len(message_bytes): the length of the encoded message
PayloadLength_chars(t) == Len(t)

PayloadLength(t) == Len(UTF8Encode(t))

\* n.to_bytes(4, byteorder="big"), for n below 2^32
ToBytes4(n) ==
    <<(n \div 16777216) % 256, (n \div 65536) % 256, (n \div 256) % 256,
      n % 256>>

\* int.from_bytes(b, byteorder="big") of four bytes
FromBytes4(b) ==
    (b[1] * 16777216) + (b[2] * 65536) + (b[3] * 256) + b[4]

Drop(s, n) == SubSeq(s, n + 1, Len(s))

FrameInit ==
    /\ frames \in FrameSeqs
    /\ framesWritten = 0 /\ wpc = "idle" /\ wire = <<>>
    /\ rpc = "len" /\ message_length = 0 /\ received = <<>> /\ consumed = 0
    /\ CoordIdle /\ ClientIdle /\ NotifierIdle

\* writer.write(length_prefix); await writer.drain()
WritePrefix ==
    /\ wpc = "idle" /\ framesWritten < Len(frames)
    /\ wire' = wire \o ToBytes4(PayloadLength(frames[framesWritten + 1]))
    /\ wpc' = "prefix"
    /\ UNCHANGED <<frames, framesWritten, rpc, message_length, received,
                   consumed, allCoordVars, clientVars,
                   notifierVars>>

\* writer.write(message_bytes); await writer.drain(); return True
WritePayload ==
    /\ wpc = "prefix"
    /\ wire' = wire \o UTF8Encode(frames[framesWritten + 1])
    /\ framesWritten' = framesWritten + 1
    /\ wpc' = "idle"
    /\ UNCHANGED <<frames, rpc, message_length, received, consumed,
                   allCoordVars, clientVars,
                   notifierVars>>

\* length_data = await reader.readexactly(4); int.from_bytes(length_data)
ReadPrefix ==
    /\ rpc = "len" /\ Len(wire) >= 4
    /\ message_length' = FromBytes4(SubSeq(wire, 1, 4))
    /\ wire' = Drop(wire, 4)
    /\ consumed' = consumed + 4
    /\ rpc' = "body"
    /\ UNCHANGED <<frames, framesWritten, wpc, received, allCoordVars, clientVars,
                   notifierVars>>

\* data = await reader.readexactly(message_length); data.decode()
ReadPayload ==
    /\ rpc = "body" /\ Len(wire) >= message_length
    /\ LET data == SubSeq(wire, 1, message_length) IN
        received' = Append(received,
                           [data |-> data, message |-> UTF8Decode(data)])
    /\ wire' = Drop(wire, message_length)
    /\ consumed' = consumed + message_length
    /\ rpc' = "len"
    /\ UNCHANGED <<frames, framesWritten, wpc, message_length, allCoordVars, clientVars,
                   notifierVars>>

FrameNext == WritePrefix \/ WritePayload \/ ReadPrefix \/ ReadPayload

FrameSpec == FrameInit /\ [][FrameNext]_vars

\* ----------------------------------------------------------------- client
\* client.py.  The stream (self.reader, self.writer) is "none" before the
\* first successful dial, "up" while the connection works, "reset" once the
\* connection was lost with an error, "closed" once closed from this side.
MaxDialFailures == 2
MaxCalls == 3

ClientInit ==
    /\ connected = FALSE /\ writer = "none" /\ cpc = "idle"
    /\ mainAt \in {"connect", "api"}
    /\ failuresLeft = 0 /\ dialN = 0
    /\ dialAttempts = 0 /\ dialDelays = 0 /\ flushed = 0 /\ calls = <<>>
    /\ CoordIdle /\ FrameIdle /\ NotifierIdle

\* The caller may start method op: main() follows its own order, a free
\* caller any order.
MayCall(op) ==
    /\ cpc = "idle"
    /\ \/ mainAt = op
       \/ mainAt = "api" /\ Len(calls) < MaxCalls

\* main(): "if success: receive_message()", else straight to the finally
AfterSend_always(success) == "receive"

AfterSend(success) == IF success THEN "receive" ELSE "close"

\* What main() calls after op ended with ret: an exception leads to the
\* finally block, and so does the end of the try block.
MainAfter(op, ret) ==
    IF mainAt = "api" THEN "api"
    ELSE IF op = "close" THEN "end"
    ELSE IF ret = "raised" THEN "close"
    ELSE IF op = "connect" THEN "send"
    ELSE IF op = "send" THEN AfterSend(ret = "true")
    ELSE "close"

\* The record of a call that has ended: what it returned ("true", "false",
\* "text", "none") or "raised", whether it was made in the Connected state,
\* and the client's state when it ended.
Ended(op, ret, pre, conn, fl, wr, att) ==
    [op |-> op, ret |-> ret, pre |-> pre, connected |-> conn,
     writer |-> wr, attempts |-> att, delays |-> dialDelays,
     n |-> dialN, flushed |-> fl]

\* The call ends: it is recorded and control goes back to the caller
Return(op, ret, pre, conn, fl, wr, att) ==
    /\ calls' = Append(calls, Ended(op, ret, pre, conn, fl, wr, att))
    /\ cpc' = "idle"
    /\ mainAt' = MainAfter(op, ret)

\* connect() is called; the dialer will fail n times and then succeed
CallConnect ==
    /\ MayCall("connect")
    /\ \E n \in 0..MaxDialFailures :
        /\ failuresLeft' = n
        /\ dialN' = n
    /\ dialAttempts' = 0 /\ dialDelays' = 0
    /\ cpc' = "dial"
    /\ UNCHANGED <<connected, writer, mainAt, flushed, calls,
                   frameVars, allCoordVars, notifierVars>>

\* connect(): after a failed attempt, sleep reconnect_delay and loop
NextAfterFailure_nodelay == "dial"

NextAfterFailure == "delay"

\* connect(): one pass of "while True": wait_for(open_connection(...))
\* raises TimeoutError or another exception, or succeeds
Dial ==
    /\ cpc = "dial"
    /\ dialAttempts' = dialAttempts + 1
    /\ IF failuresLeft > 0
       THEN /\ failuresLeft' = failuresLeft - 1
            /\ cpc' = NextAfterFailure
            /\ UNCHANGED <<connected, writer, mainAt, calls>>
       ELSE /\ connected' = TRUE
            /\ writer' = "up"
            /\ UNCHANGED failuresLeft
            /\ Return("connect", "true", connected, TRUE, 0, "up",
                   dialAttempts + 1)
    /\ UNCHANGED <<dialN, dialDelays, flushed, frameVars, allCoordVars, notifierVars>>

\* connect(): await asyncio.sleep(self.reconnect_delay)
Delay ==
    /\ cpc = "delay"
    /\ dialDelays' = dialDelays + 1
    /\ cpc' = "dial"
    /\ UNCHANGED <<connected, writer, mainAt, failuresLeft, dialN,
                   dialAttempts, flushed, calls, frameVars, allCoordVars, notifierVars>>

\* send_message(): the guard raises ConnectionError outside the try block
CallSend ==
    /\ MayCall("send")
    /\ flushed' = 0
    /\ IF ~connected \/ writer = "none"
       THEN Return("send", "raised", FALSE, connected, 0,
                    writer, dialAttempts)
       ELSE /\ cpc' = "send_prefix"
            /\ UNCHANGED <<mainAt, calls>>
    /\ UNCHANGED <<connected, writer, failuresLeft, dialN, dialAttempts,
                   dialDelays, frameVars, allCoordVars, notifierVars>>

\* send_message(): "except Exception: self.connected = False; return False"
OnSendError_keep(conn) == conn

OnSendError(conn) == FALSE

\* send_message(): writer.write(length_prefix); await writer.drain()
SendPrefix ==
    /\ cpc = "send_prefix"
    /\ IF writer = "up"
       THEN /\ flushed' = 1
            /\ cpc' = "send_payload"
            /\ UNCHANGED <<connected, mainAt, calls>>
       ELSE /\ connected' = OnSendError(connected)
            /\ UNCHANGED flushed
            /\ Return("send", "false", TRUE, OnSendError(connected),
                   flushed, writer, dialAttempts)
    /\ UNCHANGED <<writer, failuresLeft, dialN, dialAttempts, dialDelays,
                   frameVars, allCoordVars, notifierVars>>

\* send_message(): writer.write(message_bytes); await writer.drain()
SendPayload ==
    /\ cpc = "send_payload"
    /\ IF writer = "up"
       THEN /\ flushed' = 2
            /\ UNCHANGED connected
            /\ Return("send", "true", TRUE, connected, 2,
                    writer, dialAttempts)
       ELSE /\ connected' = OnSendError(connected)
            /\ UNCHANGED flushed
            /\ Return("send", "false", TRUE, OnSendError(connected),
                   flushed, writer, dialAttempts)
    /\ UNCHANGED <<writer, failuresLeft, dialN, dialAttempts, dialDelays,
                   frameVars, allCoordVars, notifierVars>>

\* receive_message(): the guard raises ConnectionError outside the try block
CallReceive ==
    /\ MayCall("receive")
    /\ IF ~connected \/ writer = "none"
       THEN Return("receive", "raised", FALSE, connected, flushed,
                    writer, dialAttempts)
       ELSE /\ cpc' = "recv_len"
            /\ UNCHANGED <<mainAt, calls>>
    /\ UNCHANGED <<connected, writer, failuresLeft, dialN, dialAttempts,
                   dialDelays, flushed, frameVars, allCoordVars, notifierVars>>

\* receive_message(): await self.reader.readexactly(4).  It raises when the
\* stream is not up, or when the peer ends the stream early.
RecvLen ==
    /\ cpc = "recv_len"
    /\ \E complete \in BOOLEAN :
        IF writer = "up" /\ complete
        THEN /\ cpc' = "recv_body"
             /\ UNCHANGED <<connected, mainAt, calls>>
        ELSE /\ connected' = FALSE
             /\ Return("receive", "raised", TRUE, FALSE, flushed,
                    writer, dialAttempts)
    /\ UNCHANGED <<writer, failuresLeft, dialN, dialAttempts, dialDelays,
                   flushed, frameVars, allCoordVars, notifierVars>>

\* receive_message(): readexactly(message_length) and data.decode().  It
\* raises when the stream is not up, when the peer ends the stream early
\* and when the payload is not valid UTF-8.
RecvBody ==
    /\ cpc = "recv_body"
    /\ \E complete \in BOOLEAN :
        IF writer = "up" /\ complete
        THEN /\ UNCHANGED connected
             /\ Return("receive", "text", TRUE, connected, flushed,
                    writer, dialAttempts)
        ELSE /\ connected' = FALSE
             /\ Return("receive", "raised", TRUE, FALSE, flushed,
                    writer, dialAttempts)
    /\ UNCHANGED <<writer, failuresLeft, dialN, dialAttempts, dialDelays,
                   flushed, frameVars, allCoordVars, notifierVars>>

\* close(): "if self.writer: self.writer.close(); await
\* self.writer.wait_closed()", then "self.connected = False".  wait_closed()
\* raises the error the connection was lost with, and the assignment is
\* then not reached.
Close ==
    /\ MayCall("close")
    /\ writer' = IF writer = "up" THEN "closed" ELSE writer
    /\ IF writer = "reset"
       THEN /\ UNCHANGED connected
            /\ Return("close", "raised", connected, connected, flushed,
                   writer, dialAttempts)
       ELSE /\ connected' = FALSE
            /\ Return("close", "none", connected, FALSE, flushed,
                   IF writer = "up" THEN "closed" ELSE writer,
                   dialAttempts)
    /\ UNCHANGED <<failuresLeft, dialN, dialAttempts, dialDelays, flushed,
                   frameVars, allCoordVars, notifierVars>>

\* The connection is lost with an error (the peer resets it).  The event
\* loop notices it while the client is suspended: inside a method, or in
\* the free caller's own code between two calls; main() does not suspend
\* between its calls.
TransportReset ==
    /\ writer = "up"
    /\ cpc # "idle" \/ mainAt = "api"
    /\ writer' = "reset"
    /\ UNCHANGED <<connected, cpc, mainAt, failuresLeft, dialN, dialAttempts,
                   dialDelays, flushed, calls, frameVars, allCoordVars, notifierVars>>

ClientNext ==
    \/ CallConnect \/ Dial \/ Delay
    \/ CallSend \/ SendPrefix \/ SendPayload
    \/ CallReceive \/ RecvLen \/ RecvBody
    \/ Close
    \/ TransportReset

ClientSpec == ClientInit /\ [][ClientNext]_vars

\* --------------------------------------------------------------- notifier
\* telegram_interactions.py send_notification, statement by statement.
\* A request is answered by HTTP 200, by another status, by a timeout or
\* by another request error.
Replies == {"ok200", "status", "timeout", "error"}

NotifierInit ==
    /\ replies \in [1..max_attempts -> Replies]
    /\ nAttempt = 0 /\ npc = "post"
    /\ posts = 0 /\ sleeps = 0 /\ result = "none"
    /\ CoordIdle /\ FrameIdle /\ ClientIdle

\* "if response.status_code == 200: ... return True"
AfterSuccess_continue == "sleep"

AfterSuccess == "returned"

\* "if attempt < max_attempts - 1: ... time.sleep(delay)"
SleepsAfter_always(a) == TRUE

SleepsAfter(a) == a < max_attempts - 1

\* One pass of the loop body: requests.post and the branch on its outcome
Post ==
    /\ npc = "post"
    /\ posts' = posts + 1
    /\ IF replies[nAttempt + 1] = "ok200"
       THEN /\ npc' = AfterSuccess
            /\ result' = "true"
       ELSE /\ npc' = IF SleepsAfter(nAttempt) THEN "sleep" ELSE "exhausted"
            /\ UNCHANGED result
    /\ UNCHANGED <<replies, nAttempt, sleeps, allCoordVars, frameVars,
                   clientVars>>

\* time.sleep(delay), then the next pass of the loop
Sleep ==
    /\ npc = "sleep"
    /\ sleeps' = sleeps + 1
    /\ nAttempt' = nAttempt + 1
    /\ npc' = IF nAttempt + 1 < max_attempts THEN "post" ELSE "exhausted"
    /\ UNCHANGED <<replies, posts, result, allCoordVars, frameVars,
                   clientVars>>

\* The loop is over: "return False"
ReturnFalse ==
    /\ npc = "exhausted"
    /\ result' = "false"
    /\ npc' = "returned"
    /\ UNCHANGED <<replies, nAttempt, posts, sleeps, allCoordVars, frameVars,
                   clientVars>>

NotifierNext == Post \/ Sleep \/ ReturnFalse

NotifierSpec == NotifierInit /\ [][NotifierNext]_vars

\* ------------------------------------------- handle_client, by statement
\* The same coordinator with handle_client cut at every statement that
\* reads or writes the coordinator's fields, and the event loop made
\* explicit: `running` is the handler the loop is executing, and a handler
\* gives the loop back only where it suspends.  Between readexactly
\* returning and the acknowledgment a handler passes the positions
\* "decode" (line 31), "store" (35), "check" (40-43), "deliver" (44),
\* "shutdown" (46) and "ack" (48-60).  Every connection has its own
\* identity and a write to a lost transport may fail.
MaxTasks == 3

Tasks == 1..MaxTasks

\* Positions at which handle_client is suspended and the loop runs others:
\* the two readexactly calls and server.wait_closed().  "await
\* self.send_combined_message()" runs to its end without suspending:
\* send_notification is an ordinary blocking call.
Suspends_delivery(l) == l \in {"readlen", "readbody", "waitclosed", "deliver"}

Suspends(l) == l \in {"readlen", "readbody", "waitclosed"}

\* Who holds the loop after handler t has moved to position l
Yield(t, l) == IF Suspends(l) \/ l \in EndPcs \/ l = "waitlost" THEN 0 ELSE t

\* Handler t may execute: it holds the loop, or the loop is free
Turn(t) == running \in {0, t}

\* "except Exception as e: print(...)": the fields are left as they are
OnException_forget(cm) == <<>>

OnException(cm) == cm

StepInit == CoordInit /\ FrameIdle /\ ClientIdle /\ NotifierIdle /\ running = 0

\* The loop accepts a connection and creates its handle_client task
SAccept(t) ==
    /\ running = 0
    /\ listening /\ mainpc = "serving"
    /\ pc[t] = "new"
    /\ \A o \in Tasks : o < t => pc[o] # "new"
    /\ pc' = [pc EXCEPT ![t] = "accepted"]
    /\ cid' = [cid EXCEPT ![t] = t]
    /\ UNCHANGED <<coordVars, serverVars, ghostVars, confVars, compVars,
                   running, acks, recorded>>

\* Lines 15-25: the shutdown check, then readexactly(4) suspends
SStart(t) ==
    /\ running = 0
    /\ pc[t] = "accepted"
    /\ pc' = [pc EXCEPT ![t] = IF RejectsConnection(shutdown_requested)
                               THEN "rejected" ELSE "readlen"]
    /\ UNCHANGED <<coordVars, serverVars, ghostVars, confVars, compVars,
                   running, cid, acks, recorded>>

\* Lines 25-30: the prefix has arrived, readexactly(message_length) suspends
SReadLen(t) ==
    /\ running = 0
    /\ pc[t] = "readlen"
    /\ pc' = [pc EXCEPT ![t] = "readbody"]
    /\ UNCHANGED <<coordVars, serverVars, ghostVars, confVars, compVars,
                   running, cid, acks, recorded>>

\* Line 30: the payload has arrived and the handler is resumed
SReadBody(t) ==
    /\ running = 0
    /\ pc[t] = "readbody"
    /\ pc' = [pc EXCEPT ![t] = "decode"]
    /\ running' = t
    /\ UNCHANGED <<coordVars, serverVars, ghostVars, confVars, compVars,
                   cid, acks, recorded>>

\* Line 31: data.decode() returns the message or raises
SDecode(t) ==
    /\ running = t
    /\ pc[t] = "decode"
    /\ \E valid \in BOOLEAN :
        IF valid
        THEN /\ pc' = [pc EXCEPT ![t] = "store"]
             /\ UNCHANGED <<coordVars, running>>
        ELSE /\ pc' = [pc EXCEPT ![t] = "failed"]
             /\ client_messages' = OnException(client_messages)
             /\ running' = 0
             /\ UNCHANGED <<message_sent, shutdown_requested>>
    /\ UNCHANGED <<serverVars, ghostVars, confVars, compVars, cid, acks,
                   recorded>>

\* Line 35: self.client_messages[client_id] = message
SStore(t) ==
    /\ running = t
    /\ pc[t] = "store"
    /\ \E m \in Payloads :
        client_messages' = DictSet(client_messages, cid[t], m)
    /\ recorded' = [recorded EXCEPT ![t] = TRUE]
    /\ pc' = [pc EXCEPT ![t] = "check"]
    /\ UNCHANGED <<message_sent, shutdown_requested, serverVars, ghostVars,
                   confVars, compVars, running, cid, acks>>

\* Lines 40-43: the barrier check
SCheck(t) ==
    /\ running = t
    /\ pc[t] = "check"
    /\ LET l == IF BarrierReached(client_messages, message_sent)
                THEN "deliver" ELSE "ack"
       IN  /\ pc' = [pc EXCEPT ![t] = l]
           /\ running' = Yield(t, l)
    /\ UNCHANGED <<coordVars, serverVars, ghostVars, confVars, compVars,
                   cid, acks, recorded>>

\* Line 44: await self.send_combined_message()
SDeliver(t) ==
    /\ Turn(t)
    /\ pc[t] = "deliver"
    /\ \E o1 \in Outcomes :
        LET d == send_combined_message(client_messages, message_sent, o1) IN
        /\ client_messages' = d.cm
        /\ message_sent' = d.ms
    /\ pc' = [pc EXCEPT ![t] = "shutdown"]
    /\ running' = t
    /\ UNCHANGED <<shutdown_requested, serverVars, ghostVars, confVars,
                   compVars, cid, acks, recorded>>

\* Line 46: await self.initiate_shutdown(), which suspends in
\* server.wait_closed() where that waits for the open connections
SShutdown(t) ==
    /\ running = t
    /\ pc[t] = "shutdown"
    /\ LET s == initiate_shutdown(shutdown_requested, listening,
                                  listenerCloses, mainpc)
           l == IF s.waits /\ WaitClosedBlocks THEN "waitclosed" ELSE "ack"
       IN  /\ shutdown_requested' = s.sr
           /\ listening' = s.listening
           /\ listenerCloses' = s.closes
           /\ mainpc' = s.mainpc
           /\ pc' = [pc EXCEPT ![t] = l]
           /\ running' = Yield(t, l)
    /\ UNCHANGED <<client_messages, message_sent, ghostVars, confVars,
                   compVars, cid, acks, recorded>>

\* Lines 48-69: the acknowledgment is written and the connection closed;
\* when the write fails the except block runs instead.
SAck(t) ==
    /\ running = t
    /\ pc[t] = "ack"
    /\ \E written \in BOOLEAN :
        IF written
        THEN /\ pc' = [pc EXCEPT ![t] = "closed"]
             /\ acks' = [acks EXCEPT ![t] = @ + 1]
             /\ UNCHANGED coordVars
        ELSE /\ pc' = [pc EXCEPT ![t] = "failed"]
             /\ client_messages' = OnException(client_messages)
             /\ UNCHANGED <<message_sent, shutdown_requested, acks>>
    /\ running' = 0
    /\ UNCHANGED <<serverVars, ghostVars, confVars, compVars, cid, recorded>>

\* The peer's end goes away: a pending readexactly raises and the except
\* block runs; a handler suspended in server.wait_closed() stays suspended.
SPeerFault(t) ==
    /\ running = 0
    /\ pc[t] \in {"readlen", "readbody", "waitclosed"}
    /\ IF pc[t] = "waitclosed"
       THEN /\ pc' = [pc EXCEPT ![t] = "waitlost"]
            /\ UNCHANGED coordVars
       ELSE /\ pc' = [pc EXCEPT ![t] = "failed"]
            /\ client_messages' = OnException(client_messages)
            /\ UNCHANGED <<message_sent, shutdown_requested>>
    /\ UNCHANGED <<serverVars, ghostVars, confVars, compVars, running, cid,
                   acks, recorded>>

\* server.wait_closed() returns to a handler whose transport is lost: the
\* acknowledgment write fails and the except block runs
SResume(t) ==
    /\ running = 0
    /\ pc[t] = "waitlost"
    /\ ~listening /\ ActiveCount = 0
    /\ pc' = [pc EXCEPT ![t] = "failed"]
    /\ client_messages' = OnException(client_messages)
    /\ UNCHANGED <<message_sent, shutdown_requested, serverVars, ghostVars,
                   confVars, compVars, running, cid, acks, recorded>>

\* main() ends as in MainEnd, when the loop is free
SMainEnd ==
    /\ running = 0
    /\ mainpc = "cancelled"
    /\ ~WaitClosedBlocks
    /\ LET sc == ServerClose(listening, listenerCloses, mainpc) IN
        /\ listening' = sc.listening
        /\ listenerCloses' = sc.closes
    /\ mainpc' = "ended"
    /\ pc' = CancelAll
    /\ UNCHANGED <<coordVars, ghostVars, confVars, compVars, running, cid,
                   acks, recorded>>

StepNext ==
    \/ \E t \in Tasks : SAccept(t)
    \/ \E t \in Tasks : SStart(t)
    \/ \E t \in Tasks : SReadLen(t)
    \/ \E t \in Tasks : SReadBody(t)
    \/ \E t \in Tasks : SDecode(t)
    \/ \E t \in Tasks : SStore(t)
    \/ \E t \in Tasks : SCheck(t)
    \/ \E t \in Tasks : SDeliver(t)
    \/ \E t \in Tasks : SShutdown(t)
    \/ \E t \in Tasks : SAck(t)
    \/ \E t \in Tasks : SPeerFault(t)
    \/ \E t \in Tasks : SResume(t)
    \/ SMainEnd

StepSpec == StepInit /\ [][StepNext]_vars

\* ----------------------------------------------------------------- claims
IsAggregated(t) == t # ShutdownMessage
IsShutdownNote(t) == t = ShutdownMessage

\* send_notification calls that carried an aggregated payload
AggregatedCalls == Len(SelectSeq(notified, IsAggregated))
ShutdownNotes == Len(SelectSeq(notified, IsShutdownNote))

\* Only connections 1 and 2 were ever accepted
TwoPeersOnly == \A c \in Conns : c > 2 => pc[c] = "new"
\* ... and both had their frame read and stored, under distinct identities
TwoPeersDone ==
    /\ TwoPeersOnly
    /\ recorded[1] /\ recorded[2]
    /\ cid[1] # cid[2]

\* C1 (as stated): with exactly two peer connections of distinct identities,
\* each having sent one complete frame, the notifier has been invoked with
\* an aggregated payload exactly once.
C1_NotifierExactlyOnce == TwoPeersDone => AggregatedCalls = 1

\* C1 (amended): with exactly two peer connections, the delivery path never
\* runs twice; once both frames are stored under distinct identities it has
\* run exactly once, and the notifier was invoked with the aggregated
\* payload exactly once if credentials are configured and not at all if
\* they are absent.
C1_DeliveryExactlyOnce ==
    /\ TwoPeersOnly => Len(deliveries) <= 1 /\ AggregatedCalls <= 1
    /\ TwoPeersDone =>
        /\ Len(deliveries) = 1
        /\ AggregatedCalls = IF credentials THEN 1 ELSE 0

\* Two peers with distinct messages, the first accepted completing last,
\* and the notifier called once
C1_Witness ==
    /\ TwoPeersDone /\ credentials
    /\ AggregatedCalls = 1
    /\ Len(deliveries) = 1
    /\ deliveries[1].by = 1
    /\ deliveries[1].arrived[1].msg # deliveries[1].arrived[2].msg

\* C2: the coordinator hands an aggregated payload to the notifier at most
\* once per process lifetime, also after a delivery whose notifier call
\* returned false.
C2_AtMostOneDelivery ==
    /\ AggregatedCalls <= 1
    /\ Len(deliveries) <= 1

\* C3: whenever the delivery path runs, then on return message_sent is true
\* and client_messages is empty, whatever the notifier returned.
C3_DeliveredAndCleared ==
    [][Len(deliveries') > Len(deliveries)
         => message_sent' /\ client_messages' = <<>>]_vars

\* C4: the coordinator enters shutdown only right after a barrier delivery
\* that succeeded, and never after one whose notifier call returned false.
C4_ShutdownOnlyAfterSuccess ==
    [][(~shutdown_requested /\ shutdown_requested')
         => /\ Len(deliveries') > Len(deliveries)
            /\ Last(deliveries').outcome # "failed"]_vars

C6_EveryRecordedPeerAcked ==
    \A c \in Conns : recorded[c] ~> (acks[c] = 1)

\* C7: a connection whose handler starts when shutdown_requested is already
\* true is closed with nothing read, stored or acknowledged, and with
\* client_messages, message_sent and shutdown_requested unchanged.
C7_LateConnectionRejected ==
    [][\A c \in Conns :
         /\ (pc[c] = "accepted" /\ shutdown_requested /\ pc'[c] # pc[c])
              => /\ pc'[c] \in {"rejected", "cancelled"}
                 /\ UNCHANGED <<client_messages, message_sent, shutdown_requested>>
         /\ pc'[c] = "rejected" => acks'[c] = 0 /\ ~recorded'[c]]_vars

\* A connection accepted before a successful delivery by another handler
\* was rejected after it
C7_Witness ==
    \E c \in Conns :
        /\ pc[c] = "rejected"
        /\ Len(deliveries) = 1
        /\ deliveries[1].outcome = "ok"
        /\ deliveries[1].by # c

\* Identities under which a message has been stored
RecordedIds == {cid[c] : c \in {o \in Conns : recorded[o]}}

\* C8: while fewer than 2 distinct identities have been recorded, no delivery
\* has run, the notifier has not been invoked, message_sent and
\* shutdown_requested are false and the coordinator still listens.
C8_NoDeliveryBelowBarrier ==
    Cardinality(RecordedIds) < 2 =>
        /\ deliveries = <<>>
        /\ notified = <<>>
        /\ ~message_sent
        /\ ~shutdown_requested
        /\ listening /\ mainpc = "serving"

\* Two frames were stored and acknowledged under one identity
C8_Witness ==
    /\ Cardinality(RecordedIds) = 1
    /\ \E c, o \in Conns :
          /\ c # o
          /\ recorded[c] /\ recorded[o]
          /\ pc[c] = "closed" /\ pc[o] = "closed"
          /\ acks[c] = 1 /\ acks[o] = 1

\* C9: a second call of initiate_shutdown changes nothing and raises no
\* error: the shutdown notification is sent at most once, the listening
\* socket is closed exactly once, and the second caller goes on to
\* acknowledge and close its connection.
C9_ShutdownIdempotent ==
    /\ ShutdownNotes <= 1
    /\ listenerCloses <= 1
    /\ shutdownCalls # <<>> =>
        /\ shutdown_requested
        /\ ~listening
        /\ listenerCloses = 1
        /\ ShutdownNotes = IF credentials THEN 1 ELSE 0
    /\ \A k \in 2..Len(shutdownCalls) :
        /\ pc[shutdownCalls[k]] = "closed"
        /\ acks[shutdownCalls[k]] = 1

\* initiate_shutdown was called twice, by two handlers
C9_Witness ==
    /\ Len(shutdownCalls) = 2
    /\ shutdownCalls[1] # shutdownCalls[2]
    /\ credentials

\* The round was delivered successfully
DeliveredOk == \E k \in 1..Len(deliveries) : deliveries[k].outcome = "ok"

\* Stopped: listener closed, no handler pending, main loop ended
Stopped ==
    /\ ~listening
    /\ mainpc = "ended"
    /\ \A c \in Conns : pc[c] \notin LivePcs

\* C10: after a successful delivery the coordinator eventually retires: the
\* listener is closed, the wait in initiate_shutdown returns, every handler
\* finishes and the main loop ends.
C10_EventuallyStopped == DeliveredOk ~> Stopped

\* Bytes of the first k frames on the stream
RECURSIVE FramesSize(_)
FramesSize(k) ==
    IF k = 0 THEN 0
    ELSE 4 + Len(UTF8Encode(frames[k])) + FramesSize(k - 1)

\* C11: every frame the reader returns is, byte for byte, the payload the
\* writer encoded for that frame and decodes to the message sent; the
\* length the reader decodes is the payload's length; and the reader has
\* consumed exactly 4 + len(P) bytes per frame, nothing of the next frame.
C11_FrameRoundTrip ==
    /\ \A k \in 1..Len(received) :
        /\ received[k].data = UTF8Encode(frames[k])
        /\ received[k].message = [ok |-> TRUE, text |-> frames[k]]
    /\ rpc = "len" => consumed = FramesSize(Len(received))
    /\ rpc = "body" =>
        /\ message_length = Len(UTF8Encode(frames[Len(received) + 1]))
        /\ consumed = FramesSize(Len(received)) + 4

\* Two frames with multi-byte characters were both read back
C11_Witness ==
    /\ Len(received) = 2
    /\ ~IsAscii(received[1].data) /\ ~IsAscii(received[2].data)

\* Calls of method op that have ended
CallsOf(op) == {k \in 1..Len(calls) : calls[k].op = op}

\* C12: with a dialer that fails N times and then succeeds, connect() makes
\* exactly N + 1 attempts and sleeps exactly N reconnect delays, one after
\* each failed attempt; it ends only by returning success with the client
\* connected, on attempt N + 1.
C12_ConnectRetriesUntilSuccess ==
    /\ \A k \in CallsOf("connect") :
        /\ calls[k].ret = "true" /\ calls[k].connected
        /\ calls[k].writer = "up"
        /\ calls[k].attempts = calls[k].n + 1
        /\ calls[k].delays = calls[k].n
    /\ cpc = "dial" =>
        /\ dialDelays = dialAttempts
        /\ dialAttempts + failuresLeft = dialN
    /\ cpc = "delay" =>
        /\ dialDelays + 1 = dialAttempts
        /\ dialAttempts + failuresLeft = dialN

\* connect() returned after the dialer failed at least twice
C12_Witness ==
    \E k \in CallsOf("connect") : calls[k].n >= 2 /\ calls[k].attempts >= 3

\* C13: send_message called in the Connected state never raises; when a
\* write fails it returns false and leaves the client not connected; it
\* returns true exactly when both the prefix and the payload were written
\* and flushed.
C13_SendFailsSoftly ==
    \A k \in CallsOf("send") :
        calls[k].pre =>
            /\ calls[k].ret \in {"true", "false"}
            /\ calls[k].ret = "false" => ~calls[k].connected
            /\ calls[k].ret = "true" <=> calls[k].flushed = 2

\* A send failed after its prefix had been flushed
C13_Witness ==
    \E k \in CallsOf("send") :
        calls[k].pre /\ calls[k].ret = "false" /\ calls[k].flushed = 1

IsPrefix(s, t) == Len(s) <= Len(t) /\ s = SubSeq(t, 1, Len(s))

CallOps == [k \in 1..Len(calls) |-> calls[k].op]

\* C14: one run of main() calls, in this order, connect once (it returns
\* success), send_message once, receive_message at most once and only after
\* a successful send, and close once; nothing is called twice, and main()
\* ends only after close, also when the send or the receive failed.
C14_OneRunCallOrder ==
    mainAt # "api" =>
        /\ \/ IsPrefix(CallOps, <<"connect", "send", "receive", "close">>)
           \/ IsPrefix(CallOps, <<"connect", "send", "close">>)
        /\ Len(calls) >= 1 => calls[1].ret = "true"
        /\ "receive" \in {CallOps[k] : k \in 1..Len(calls)} =>
               calls[2].ret = "true"
        /\ mainAt = "end" <=> (calls # <<>> /\ Last(calls).op = "close")

\* main() ended after a receive that failed, having closed
C14_Witness ==
    /\ mainAt = "end" /\ Len(calls) = 4
    /\ calls[3].op = "receive" /\ calls[3].ret = "raised"
    /\ calls[4].op = "close"

\* C15: every close() leaves the client not connected, whatever state it is
\* called in and whether or not the wait for the stream's closing fails.
C15_CloseLeavesNotConnected ==
    \A k \in CallsOf("close") : ~calls[k].connected

\* Attempts the channel answers with HTTP 200
OkAttempts == {k \in 1..Len(replies) : replies[k] = "ok200"}
FirstOk == CHOOSE k \in OkAttempts : \A j \in OkAttempts : k <= j

\* C16: when every attempt fails (other status, timeout or request error)
\* send_notification makes exactly 3 attempts, sleeps exactly 2 delays, one
\* after the first and one after the second attempt and none after the
\* third, and returns false.
C16_ThreeAttemptsThenFalse ==
    (replies # <<>> /\ OkAttempts = {}) =>
        /\ npc = "returned" =>
            /\ posts = 3 /\ sleeps = 2 /\ result = "false"
        /\ npc = "sleep" => posts \in {1, 2} /\ sleeps = posts - 1
        /\ npc = "post" => sleeps = posts
        /\ npc = "exhausted" => posts = 3 /\ sleeps = 2
        /\ result # "true"

\* A call whose three attempts failed in three different ways has returned
C16_Witness ==
    /\ replies = <<"status", "timeout", "error">>
    /\ npc = "returned" /\ result = "false"

\* C17: when the first successful attempt is attempt k, send_notification
\* returns true right after it, having made exactly k attempts and slept
\* k - 1 delays, and makes no further attempt; it returns true only if
\* some attempt succeeded.  The loop agrees with the coordinator's view of
\* the call (send_notification above).
C17_ReturnsOnFirstSuccess ==
    /\ OkAttempts # {} =>
        /\ posts <= FirstOk
        /\ npc = "returned" =>
            /\ result = "true"
            /\ posts = FirstOk /\ sleeps = FirstOk - 1
        /\ posts = FirstOk => npc = "returned"
    /\ result = "true" => \E k \in OkAttempts : k <= posts
    /\ (replies # <<>> /\ npc = "returned") =>
        LET r == send_notification([k \in 1..max_attempts |->
                                       replies[k] = "ok200"])
        IN  /\ r.ok = (result = "true")
            /\ r.attempts = posts
            /\ r.delays = sleeps

\* The third attempt was the first to succeed and the call has returned
C17_Witness ==
    /\ replies = <<"timeout", "status", "ok200">>
    /\ npc = "returned" /\ result = "true" /\ posts = 3

\* Handler t ends in its except block in this step
FaultStep(t) == pc[t] # "failed" /\ pc'[t] = "failed"

\* Positions of a handler whose frame is not yet read and decoded, and
\* positions from which only the acknowledgment write can fail
BeforeStore == {"readlen", "readbody", "decode"}
AtAck == {"ack", "waitlost"}

\* C18 as stated: whenever a handler ends in its except block (frame not
\* completely read, payload not decodable, or acknowledgment not written)
\* the coordinator's fields are unchanged and that peer has no entry.
C18_FaultedPeerHasNoEntry ==
    [][\A t \in Tasks : FaultStep(t) =>
          /\ UNCHANGED coordVars
          /\ ~recorded'[t]
          /\ ~DictHas(client_messages', cid[t])]_vars

\* C18 amended: a handler that ends in its except block changes none of
\* client_messages, message_sent and shutdown_requested; when the frame was
\* not completely read or not decodable that peer has no entry, and when
\* the acknowledgment write failed that peer's message had been stored
\* before.
C18_FaultLeavesStateAlone ==
    [][\A t \in Tasks : FaultStep(t) =>
          /\ UNCHANGED coordVars
          /\ UNCHANGED recorded
          /\ pc[t] \in BeforeStore \cup AtAck
          /\ pc[t] \in BeforeStore =>
                ~recorded[t] /\ ~DictHas(client_messages, cid[t])
          /\ pc[t] \in AtAck => recorded[t]]_vars

\* The first peer's handler failed before storing anything, and the two
\* other peers have completed the barrier: delivery is about to run
C18_Witness ==
    /\ pc[1] = "failed" /\ ~recorded[1]
    /\ \E t \in Tasks : pc[t] = "deliver"
    /\ Len(client_messages) = expected_clients

\* Handlers between their insert and the end of their delivery
InUnit(t) == pc[t] \in {"check", "deliver"}

\* C19: at most one handler is between a passed barrier check and the end
\* of send_combined_message, and while a handler is between its insert and
\* the end of its delivery every step is its own: no other handler moves,
\* and client_messages and message_sent change only by its steps.
C19_DeliveryIsAtomic ==
    [][/\ Cardinality({t \in Tasks : pc[t] = "deliver"}) <= 1
       /\ Cardinality({t \in Tasks : pc'[t] = "deliver"}) <= 1
       /\ \A t \in Tasks : InUnit(t) =>
             /\ \A u \in Tasks \ {t} : pc'[u] = pc[u]
             /\ pc'[t] # pc[t]]_vars

\* A handler has passed the barrier check while another connection's
\* payload is waiting to be read
C19_Witness ==
    \E t \in Tasks, u \in Tasks :
        /\ pc[t] = "deliver" /\ running = t
        /\ pc[u] = "readbody"

\* C20 as stated, for a delivery that succeeded: once message_sent is true
\* client_messages is empty in every later state.
C20_MappingStaysEmpty == message_sent => client_messages = <<>>

\* C20 amended: every delivery empties the mapping (what it holds was all
\* recorded after the last delivery), and once a delivery has succeeded no
\* further delivery is attempted: message_sent is true exactly from then on
\* and only a failed delivery is ever followed by another one.
C20_NoDeliveryAfterDelivered ==
    /\ Len(client_messages) = Len(arrivals)
    /\ \A k \in 1..Len(client_messages) :
        /\ client_messages[k].id = arrivals[k].id
        /\ client_messages[k].msg = arrivals[k].msg
    /\ \A k \in 1..(Len(deliveries) - 1) : deliveries[k].outcome = "failed"
    /\ message_sent <=>
        (deliveries # <<>> /\ Last(deliveries).outcome # "failed")

\* A connection accepted before the delivery had its frame read after it:
\* its message is recorded and acknowledged, the round stays delivered
C20_Witness ==
    /\ message_sent /\ Len(deliveries) = 1
    /\ \E c \in Conns :
        /\ deliveries[1].by < c
        /\ pc[c] = "closed" /\ acks[c] = 1 /\ recorded[c]
        /\ DictHas(client_messages, cid[c])

\* Connection c stores a message under an identity that already has one
OverwriteStep(c) ==
    ~recorded[c] /\ recorded'[c] /\ DictHas(client_messages, cid[c])

\* The delivery path runs in this step
DeliveryStep == Len(deliveries') > Len(deliveries)

\* The last connection that has stored a message under identity i
LatestOf(i, rec) ==
    CHOOSE c \in Conns :
        /\ cid[c] = i /\ rec[c]
        /\ \A o \in Conns : (cid[o] = i /\ rec[o]) => o <= c

\* C21: a frame recorded under an identity that already has a stored
\* message replaces that message in place and adds no entry, so the
\* identity still counts as one peer and the barrier does not fire on those
\* two frames alone; and every delivered payload is made of one message per
\* identity, the last one recorded under it.
C21_LastWriteWins ==
    [][/\ \A c \in Conns : OverwriteStep(c) =>
            /\ Len(client_messages) < expected_clients => ~DeliveryStep
            /\ ~DeliveryStep =>
                /\ Len(client_messages') = Len(client_messages)
                /\ Last(arrivals').conn = c
                /\ \A k \in 1..Len(client_messages) :
                    /\ client_messages'[k].id = client_messages[k].id
                    /\ client_messages'[k].msg =
                         IF client_messages[k].id = cid[c]
                         THEN Last(arrivals').msg
                         ELSE client_messages[k].msg
       /\ DeliveryStep =>
            LET d == Last(deliveries') IN
            /\ Len(d.arrived) >= expected_clients
            /\ \A j, k \in 1..Len(d.arrived) :
                 j # k => d.arrived[j].id # d.arrived[k].id
            /\ \A k \in 1..Len(d.arrived) :
                 d.arrived[k].conn = LatestOf(d.arrived[k].id, recorded')
            /\ d.payload =
                 Join([k \in 1..Len(d.arrived) |-> d.arrived[k].msg])]_vars

\* The second connection reused the first one's identity and replaced its
\* "Hello" by "World"; the third completed the barrier and only "World"
\* was delivered for that identity
C21_Witness ==
    /\ cid[1] = cid[2] /\ recorded[1] /\ recorded[2]
    /\ Len(deliveries) = 1
    /\ deliveries[1].by = 3
    /\ deliveries[1].arrived[1].conn = 2
    /\ deliveries[1].payload = "World Hello"

====
